---- MODULE Spec2Model ----
(***************************************************************************)
(* Order placement and inventory consistency of the storefront server.     *)
(* The state is the relational store (product variants, carts, orders,     *)
(* order items, payments, discounts and their usage, users, reviews) plus  *)
(* the position and locals of every in-flight request: checkout, product   *)
(* rating, order history.  One action is one uninterrupted run of a        *)
(* handler between two awaits: the effect of the awaited storage call      *)
(* together with the synchronous code that follows it.                     *)
(***************************************************************************)
EXTENDS Integers, Sequences, FiniteSets, TLC

\* ------------------------------------------------------------------ bounds
NumVariants == 2
NumSessions == 2
MaxReqs == 2
InitStock == 2
MaxQty == 2
MaxFaults == 1
MaxAdminOps == 1
MaxCalls == 2

Variants == 1..NumVariants
Sessions == 1..NumSessions
Reqs == 1..MaxReqs
Quantities == 1..MaxQty

\* The authenticated user (req.user, set by the authenticate middleware).
Users == {1}

\* Each product of the catalogue carries one variant.
ProductOf(v) == v

\* A nullable column or an absent body field: <<>> is null, <<x>> is x.
Null == <<>>
Some(x) == <<x>>

\* ------------------------------------------------------- request bodies
\* process.env.RAZORPAY_KEY_SECRET, and a key that is not the server's.
ServerSecret == "key_secret"
ForeignSecret == "key_other"

\* crypto.createHmac("sha256", key).update(body).digest("hex"): a keyed
\* digest, equal for equal key and body and different otherwise.
Hmac(key, body) == <<"hmac-sha256", key, body>>

\* razorpayOrderId + "|" + razorpayPaymentId
SignedBody(razorpayOrderId, razorpayPaymentId) ==
    <<razorpayOrderId, "|", razorpayPaymentId>>

\* An absent (falsy) razorpaySignature; an absent reference is 0.
MissingSignature == <<"">>

\* The razorpay fields of a body: the gateway's own triple for order 1 and
\* payment 1, the triple signed with another key, the signature replayed
\* for another gateway order, and each field left out in turn.
RazorpayFields ==
    {[razorpayOrderId |-> 1, razorpayPaymentId |-> 1,
      razorpaySignature |-> Hmac(ServerSecret, SignedBody(1, 1))],
     [razorpayOrderId |-> 1, razorpayPaymentId |-> 1,
      razorpaySignature |-> Hmac(ForeignSecret, SignedBody(1, 1))],
     [razorpayOrderId |-> 2, razorpayPaymentId |-> 1,
      razorpaySignature |-> Hmac(ServerSecret, SignedBody(1, 1))],
     [razorpayOrderId |-> 0, razorpayPaymentId |-> 1,
      razorpaySignature |-> Hmac(ServerSecret, SignedBody(1, 1))],
     [razorpayOrderId |-> 1, razorpayPaymentId |-> 0,
      razorpaySignature |-> Hmac(ServerSecret, SignedBody(1, 1))],
     [razorpayOrderId |-> 1, razorpayPaymentId |-> 1,
      razorpaySignature |-> MissingSignature]}

NoRazorpayFields ==
    [razorpayOrderId |-> 0, razorpayPaymentId |-> 0,
     razorpaySignature |-> MissingSignature]

\* The e-mail address the user registered with, another address of the
\* same user and an address of somebody else.
AccountEmail == "a@x.in"
AccountNumber == "9876543210"
OtherEmail == "b@x.in"
ForeignEmail == "c@x.in"

\* The amount, in paise, of the bodies of the scenarios that never read
\* it: the price of one unit of variant 1.
SentAmount == 1000

\* What a client may send to POST /api/payments/verify.
RequestBodies ==
    [sessionId : {0} \cup Sessions, paymentMethod : {"cod"},
     razorpay : {NoRazorpayFields}, appliedDiscount : {Null},
     amount : {SentAmount},
     customerInfo : {[email |-> AccountEmail]}]
    \cup
    [sessionId : Sessions, paymentMethod : {"razorpay"},
     razorpay : RazorpayFields, appliedDiscount : {Null},
     amount : {SentAmount},
     customerInfo : {[email |-> AccountEmail]}]

\* The discounts table holds one discount, which every user may redeem
\* once and which may be redeemed twice in all.
Discounts == {1}
UsageLimit == 2

\* Bodies that carry the discount the client applied: a discount of the
\* table, or an object without an id.
DiscountedBodies ==
    [sessionId : Sessions, paymentMethod : {"cod"},
     razorpay : {NoRazorpayFields},
     appliedDiscount : {Some([id |-> d]) : d \in {0} \cup Discounts},
     amount : {SentAmount},
     customerInfo : {[email |-> AccountEmail]}]
    \cup
    [sessionId : Sessions, paymentMethod : {"razorpay"},
     razorpay : {[razorpayOrderId |-> 1, razorpayPaymentId |-> 1,
                  razorpaySignature |-> Hmac(ServerSecret, SignedBody(1, 1))]},
     appliedDiscount : {Some([id |-> d]) : d \in Discounts},
     amount : {SentAmount},
     customerInfo : {[email |-> AccountEmail]}]

\* Bodies whose customerInfo carries the account's address or another one.
TrackedBodies ==
    [sessionId : Sessions, paymentMethod : {"cod"},
     razorpay : {NoRazorpayFields}, appliedDiscount : {Null},
     amount : {SentAmount},
     customerInfo : {[email |-> e] : e \in {AccountEmail, ForeignEmail}}]

\* generateTrackingId(): three random letters and three random digits.
\* FirstTrackingId is the draw of the scenarios that never read it.
FirstTrackingId == "AAA000"
TrackingIds == {FirstTrackingId, "AAA001"}

\* ------------------------------------------------------------------ state
VARIABLES
    variants,     \* product_variants: id -> [price, discountPrice, stockQuantity]
    carts,        \* cart lines of each session, in insertion order
    orders,       \* orders table, row i has id i
    orderItems,   \* order_items table
    payments,     \* payments table
    req,          \* every POST /payments/verify request: position and locals
    supplied,     \* history: units of each variant ever put on sale
    faults,       \* storage calls that have thrown so far
    adminOps,     \* admin product updates so far
    discounts,    \* discounts table: id -> [usedCount, usageLimit, perUser]
    discountUsage,\* discount_usage table
    calls,        \* requests to the other endpoints so far
    users,        \* users table: id -> [email, mobile, resetToken]
    tracked,      \* the latest POST /api/orders/tracking: body and response
    stockPut,     \* the latest PUT /api/admin/products/:id/stock
    removed,      \* ids of the product_variants rows deleted from the table
    softDeleted,  \* ids of the product_variants rows with isDeleted = true
    insertedVariants, \* product of each product_variants row inserted since
    reviews,      \* product_reviews table
    rate,         \* every rate-product request: position and locals
    history,      \* the GET /api/orders/history request: position and locals
    deleteAnswer, \* the latest DELETE /api/admin/products/:id
    activeAnswer, \* the latest GET /api/discounts/active
    forgot,       \* the latest POST /api/auth/forgot-password
    deletedUsers, \* ids of the users rows deleted from the table
    accountAnswer \* the latest DELETE /api/user/delete-account

\* The state no step of POST /api/payments/verify before the discount
\* is recorded, and no admin product update, reads or writes.
\* The state only the catalogue edits, the rating requests and the order
\* history read or write.
\* The state only the product deletion, the list of active discounts and
\* the account endpoints write.
answers == <<deleteAnswer, activeAnswer, forgot, deletedUsers, accountAnswer>>

rest ==
    <<removed, softDeleted, insertedVariants, reviews, rate, history, answers>>

elsewhere ==
    <<discounts, discountUsage, calls, users, tracked, stockPut, rest>>

vars == <<variants, carts, orders, orderItems, payments, req, supplied,
          faults, adminOps, elsewhere>>

NoResponse == [status |-> 0, message |-> "", error |-> "", product |-> 0]

\* No tracking lookup was made yet.
NotTracked ==
    [seq |-> 0, orderNumber |-> "", email |-> "",
     response |-> [status |-> 0, message |-> "", order |-> 0]]

\* No stock update was requested yet.
NoStockPut ==
    [seq |-> 0, productId |-> 0, stockQuantity |-> Null,
     response |-> [status |-> 0, message |-> ""]]

\* The rate-product requests, none of which has arrived.
Ratings == 1..MaxCalls

IdleRating ==
    [pc |-> "idle", userId |-> 0, orderId |-> 0, productId |-> 0,
     rating |-> 0, response |-> [status |-> 0, message |-> ""]]

\* No order history was requested yet.
NoHistory ==
    [pc |-> "idle", userId |-> 0, ordersList |-> <<>>, items |-> {},
     seen |-> 0, complete |-> {},
     response |-> [status |-> 0, orders |-> <<>>]]

\* No product deletion was requested yet.  hadRows and open are what the
\* tables held when the request was answered; refused are the products
\* a request could not delete because of pending orders, and repeated
\* tells that the product was already one of them.
NoDeleteAnswer ==
    [seq |-> 0, productId |-> 0, hadRows |-> FALSE, open |-> {},
     repeated |-> FALSE, refused |-> {}, response |-> [status |-> 0, message |-> ""]]

\* No list of active discounts was requested yet.
NoActiveAnswer ==
    [seq |-> 0, userId |-> 0, status |-> 0, discounts |-> {},
     available |-> {}]

\* No password reset was requested yet.
NoForgot ==
    [seq |-> 0, email |-> "", number |-> Null, registered |-> FALSE,
     response |-> [status |-> 0, message |-> ""]]

\* No account deletion was requested yet.
NoAccountAnswer ==
    [seq |-> 0, userId |-> 0, otp |-> Null,
     response |-> [status |-> 0, message |-> ""]]

IdleRequest ==
    [pc |-> "idle", userId |-> 0, sessionId |-> 0, paymentMethod |-> "",
     razorpay |-> NoRazorpayFields, appliedDiscount |-> Null, amount |-> 0,
     customerInfo |-> [email |-> ""], discountErr |-> FALSE, cart |-> <<>>, pending |-> {},
     order |-> 0, payment |-> 0, created |-> 0, response |-> NoResponse]

\* Regular prices of the catalogue.
PriceOf(v) == 10 * v
Prices == {PriceOf(v) : v \in Variants}

\* discount_price: null, the schema default 0, or a real discount price.
DiscountPrices == {Null, Some(0), Some(5)}

\* Carts a session can have built with POST /cart/items: at most one line
\* per variant, every quantity > 0.
RECURSIVE LinesOf(_, _)
LinesOf(qty, vs) ==
    IF vs = {} THEN <<>>
    ELSE LET v == CHOOSE x \in vs : \A y \in vs : x <= y
         IN  <<[variantId |-> v, quantity |-> qty[v]]>> \o LinesOf(qty, vs \ {v})

CartContents ==
    {LinesOf(qty, vs) : qty \in [Variants -> Quantities], vs \in SUBSET Variants}

\* The catalogue after the discount_price migration (every variant holds the
\* default 0), all variants stocked alike, and the carts the sessions built.
Init ==
    /\ variants \in [Variants -> [price : Prices,
                                  discountPrice : {Some(0)},
                                  stockQuantity : 1..InitStock]]
    /\ \A v \in Variants : variants[v].price = PriceOf(v)
    /\ \A v, w \in Variants : variants[v].stockQuantity = variants[w].stockQuantity
    /\ carts \in [Sessions -> CartContents]
    /\ orders = <<>>
    /\ orderItems = <<>>
    /\ payments = <<>>
    /\ req = [r \in Reqs |-> IdleRequest]
    /\ supplied = [v \in Variants |-> variants[v].stockQuantity]
    /\ faults = 0
    /\ adminOps = 0
    /\ discounts = [d \in Discounts |->
                       [usedCount |-> 0, usageLimit |-> UsageLimit,
                        perUser |-> TRUE]]
    /\ discountUsage = <<>>
    /\ calls = 0
    /\ users = [u \in Users |->
                   [email |-> AccountEmail, mobile |-> AccountNumber,
                    resetToken |-> Null]]
    /\ tracked = NotTracked
    /\ stockPut = NoStockPut
    /\ removed = {}
    /\ softDeleted = {}
    /\ insertedVariants = <<>>
    /\ reviews = <<>>
    /\ rate = [k \in Ratings |-> IdleRating]
    /\ history = NoHistory
    /\ deleteAnswer = NoDeleteAnswer
    /\ activeAnswer = NoActiveAnswer
    /\ forgot = NoForgot
    /\ deletedUsers = {}
    /\ accountAnswer = NoAccountAnswer

\* ------------------------------------------------------------ storage
\* storage.getCart: the session's lines, each resolved to its live variant.
CartSnapshot(sessionId) ==
    [i \in 1..Len(carts[sessionId]) |->
        LET v == carts[sessionId][i].variantId
        IN  [product |-> [id |-> ProductOf(v)],
             variant |-> [id |-> v,
                          price |-> variants[v].price,
                          discountPrice |-> variants[v].discountPrice],
             quantity |-> carts[sessionId][i].quantity]]

\* storage.validateStockAvailability, the Stock Ledger's checkAndReserve:
\* one conditional update, stock = stock - qty where stock >= qty.
IsAvailable(variantId, quantity) ==
    variants[variantId].stockQuantity >= quantity

ReserveStock(variantId, quantity) ==
    IF IsAvailable(variantId, quantity)
    THEN [variants EXCEPT ![variantId].stockQuantity = @ - quantity]
    ELSE variants

\* storage.clearCart
ClearedCarts(sessionId) == [carts EXCEPT ![sessionId] = <<>>]

\* ------------------------------------------- POST /api/payments/verify
Respond(r, status, message, error, product) ==
    [req[r] EXCEPT !.pc = "done",
                   !.response = [status |-> status, message |-> message,
                                 error |-> error, product |-> product]]

\* catch (error): res.status(500), "Failed to process order", error.message
Caught(r, error, product) ==
    Respond(r, 500, "Failed to process order", error, product)

MissingPaymentFields(razorpay) ==
    \/ razorpay.razorpayPaymentId = 0
    \/ razorpay.razorpayOrderId = 0
    \/ razorpay.razorpaySignature = MissingSignature

ExpectedSignature(razorpay) ==
    Hmac(ServerSecret,
         SignedBody(razorpay.razorpayOrderId, razorpay.razorpayPaymentId))

SignatureNeverRejected(razorpay) == FALSE

\* if (expectedSignature !== razorpaySignature)
SignatureRejected(razorpay) ==
    ExpectedSignature(razorpay) # razorpay.razorpaySignature

\* The handler from its entry to the call of storage.getCart.
Receive(r, u, body) ==
    /\ req[r].pc = "idle"
    /\ \A q \in Reqs : q < r => req[q].pc # "idle"
    /\ LET started == [req[r] EXCEPT !.userId = u,
                                     !.sessionId = body.sessionId,
                                     !.paymentMethod = body.paymentMethod,
                                     !.razorpay = body.razorpay,
                                     !.appliedDiscount = body.appliedDiscount,
                                     !.amount = body.amount,
                                     !.customerInfo = body.customerInfo]
           answer(message) ==
               [started EXCEPT
                  !.pc = "done",
                  !.response = [status |-> 400, message |-> message,
                                error |-> "", product |-> 0]]
       IN  req' = [req EXCEPT ![r] =
             IF body.sessionId = 0
             THEN answer("Missing session ID")
             ELSE IF /\ body.paymentMethod = "razorpay"
                     /\ MissingPaymentFields(body.razorpay)
             THEN answer("Missing required payment fields")
             ELSE IF /\ body.paymentMethod = "razorpay"
                     /\ SignatureRejected(body.razorpay)
             THEN answer("Invalid payment signature")
             ELSE [started EXCEPT !.pc = "getCart"]]
    /\ UNCHANGED <<variants, carts, orders, orderItems, payments, supplied,
                   faults, adminOps,
                   elsewhere>>

EmptyCartNeverRefused(cart) == FALSE

\* if (!cart.items || cart.items.length === 0)
EmptyCart(cart) == Len(cart) = 0

\* storage.getCart returns; an empty cart is refused, otherwise every
\* line's stock validation is started at once (Promise.all over map).
GetCart(r) ==
    /\ req[r].pc = "getCart"
    /\ LET cart == CartSnapshot(req[r].sessionId)
       IN  req' = [req EXCEPT ![r] =
             IF EmptyCart(cart)
             THEN Respond(r, 400, "No items in cart to create order", "", 0)
             ELSE [req[r] EXCEPT !.pc = "validate",
                                 !.cart = cart,
                                 !.pending = 1..Len(cart)]]
    /\ UNCHANGED <<variants, carts, orders, orderItems, payments, supplied,
                   faults, adminOps,
                   elsewhere>>

StockCheckNeverThrows(isAvailable) == FALSE

\* if (!isAvailable) throw new Error(`Insufficient stock for ...`)
StockCheckThrows(isAvailable) == ~isAvailable

\* One line's validateStockAvailability call completes.  The first line
\* that throws rejects the Promise.all and the handler answers from its
\* catch; the calls of the other lines were already started and still run.
ValidateStock(r, i) ==
    /\ i \in req[r].pending
    /\ LET item == req[r].cart[i]
           isAvailable == IsAvailable(item.variant.id, item.quantity)
           pending == req[r].pending \ {i}
       IN  /\ variants' = ReserveStock(item.variant.id, item.quantity)
           /\ req' = [req EXCEPT ![r] =
                IF req[r].pc # "validate"
                THEN [req[r] EXCEPT !.pending = pending]
                ELSE IF StockCheckThrows(isAvailable)
                THEN [Caught(r, "Insufficient stock for", item.product.id)
                        EXCEPT !.pending = pending]
                ELSE [req[r] EXCEPT
                        !.pending = pending,
                        !.pc = IF pending = {} THEN "createOrder" ELSE @]]
    /\ UNCHANGED <<carts, orders, orderItems, payments, supplied, faults,
                   adminOps,
                   elsewhere>>

\* The row storage.createOrder is given.
\* amount / 100: the amounts of the bodies are whole rupees in paise.
Rupees(amount) == amount \div 100

OrderRow(id, r, trackingId, createdAt) ==
    [id |-> id,
     createdAt |-> createdAt,
     userId |-> req[r].userId,
     sessionId |-> req[r].sessionId,
     paymentId |-> IF req[r].paymentMethod = "razorpay"
                   THEN Some(req[r].razorpay.razorpayPaymentId) ELSE Null,
     total |-> Rupees(req[r].amount),
     status |-> "confirmed",
     customerInfo |-> req[r].customerInfo,
     paymentMethod |-> req[r].paymentMethod,
     trackingId |-> trackingId]

\* createdAt, the database's now(): elapsed ticks after the newest order.
CreateOrder(r, trackingId, elapsed) ==
    /\ req[r].pc = "createOrder"
    /\ LET id == Len(orders) + 1
           createdAt == IF orders = <<>> THEN elapsed
                        ELSE orders[Len(orders)].createdAt + elapsed
       IN  /\ orders' = Append(orders, OrderRow(id, r, trackingId, createdAt))
           /\ req' = [req EXCEPT ![r].order = id,
                                 ![r].pc = "createOrderItem"]
    /\ UNCHANGED <<variants, carts, orderItems, payments, supplied, faults,
                   adminOps,
                   elsewhere>>

\* item.variant.discountPrice ?? item.variant.price
ItemPrice(variant) ==
    IF variant.discountPrice = Null
    THEN variant.price
    ELSE variant.discountPrice[1]

\* A row that loses the line's quantity.
OrderItemRowOneUnit(orderId, item) ==
    [orderId |-> orderId,
     productId |-> item.product.id,
     variantId |-> item.variant.id,
     quantity |-> 1,
     price |-> item.variant.price]

\* The row storage.createOrderItem is given for one cart line.
OrderItemRow(orderId, item) ==
    [orderId |-> orderId,
     productId |-> item.product.id,
     variantId |-> item.variant.id,
     quantity |-> item.quantity,
     price |-> ItemPrice(item.variant)]

AfterOrderItems(r) ==
    IF req[r].paymentMethod = "razorpay" THEN "createPayment" ELSE "notify"

\* One turn of the loop over cart.items.
CreateOrderItem(r) ==
    /\ req[r].pc = "createOrderItem"
    /\ LET item == req[r].cart[req[r].created + 1]
       IN  orderItems' = Append(orderItems, OrderItemRow(req[r].order, item))
    /\ req' = [req EXCEPT
                 ![r].created = @ + 1,
                 ![r].pc = IF req[r].created + 1 = Len(req[r].cart)
                           THEN AfterOrderItems(r) ELSE @]
    /\ UNCHANGED <<variants, carts, orders, payments, supplied, faults,
                   adminOps,
                   elsewhere>>

PaymentRow(id, r) ==
    [id |-> id,
     userId |-> req[r].userId,
     orderId |-> req[r].order,
     razorpayPaymentId |-> req[r].razorpay.razorpayPaymentId,
     amount |-> Rupees(req[r].amount),
     status |-> "completed"]

CreatePayment(r) ==
    /\ req[r].pc = "createPayment"
    /\ LET id == Len(payments) + 1
       IN  /\ payments' = Append(payments, PaymentRow(id, r))
           /\ req' = [req EXCEPT ![r].payment = id, ![r].pc = "notify"]
    /\ UNCHANGED <<variants, carts, orders, orderItems, supplied, faults,
                   adminOps,
                   elsewhere>>

\* if (appliedDiscount && appliedDiscount.id)
DiscountPresent(appliedDiscount) ==
    /\ appliedDiscount # Null
    /\ appliedDiscount[1].id # 0

\* The operator e-mail: read the items, send; whatever it throws is caught
\* and logged.  The handler goes on to record the applied discount, or
\* without one to storage.clearCart.
SendOrderNotification(r) ==
    /\ req[r].pc = "notify"
    /\ req' = [req EXCEPT ![r].pc =
                 IF DiscountPresent(req[r].appliedDiscount)
                 THEN "applyDiscount" ELSE "clearCart"]
    /\ UNCHANGED <<variants, carts, orders, orderItems, payments, supplied,
                   faults, adminOps,
                   elsewhere>>

\* storage.applyDiscount, the Discount Evaluator's apply: the discount's
\* used-count goes up by one and a usage row is inserted.
DiscountsAfterApply(discountId) ==
    [discounts EXCEPT ![discountId].usedCount = @ + 1]

UsageRow(discountId, userId, sessionId, orderId) ==
    [discountId |-> discountId, userId |-> userId,
     sessionId |-> sessionId, orderId |-> orderId]

\* storage.applyDiscount(appliedDiscount.id, user.id, sessionId, order.id)
\* returns.
ApplyDiscount(r) ==
    /\ req[r].pc = "applyDiscount"
    /\ discounts' = DiscountsAfterApply(req[r].appliedDiscount[1].id)
    /\ discountUsage' =
           Append(discountUsage,
                  UsageRow(req[r].appliedDiscount[1].id, req[r].userId,
                           req[r].sessionId, req[r].order))
    /\ req' = [req EXCEPT ![r].pc = "clearCart"]
    /\ UNCHANGED <<variants, carts, orders, orderItems, payments, supplied,
                   faults, adminOps, calls, users, tracked, stockPut,
                   rest>>

\* A catch that answers from the handler's outer catch instead.
DiscountErrRethrown(r) ==
    [Caught(r, "Failed to apply discount", 0) EXCEPT !.discountErr = TRUE]

\* catch (discountErr): logged, "Continue without failing the order".
DiscountErrCaught(r) ==
    [req[r] EXCEPT !.discountErr = TRUE, !.pc = "clearCart"]

\* storage.applyDiscount throws.
ApplyDiscountThrows(r) ==
    /\ faults < MaxFaults
    /\ req[r].pc = "applyDiscount"
    /\ faults' = faults + 1
    /\ req' = [req EXCEPT ![r] = DiscountErrCaught(r)]
    /\ UNCHANGED <<variants, carts, orders, orderItems, payments, supplied,
                   adminOps, elsewhere>>

SuccessMessage(paymentMethod) ==
    IF paymentMethod = "cod"
    THEN "Order placed successfully"
    ELSE "Payment successful and order created"

\* storage.clearCart returns and res.json({message, order, payment}).
ClearCart(r) ==
    /\ req[r].pc = "clearCart"
    /\ carts' = ClearedCarts(req[r].sessionId)
    /\ req' = [req EXCEPT ![r] =
                 Respond(r, 200, SuccessMessage(req[r].paymentMethod), "", 0)]
    /\ UNCHANGED <<variants, orders, orderItems, payments, supplied, faults,
                   adminOps,
                   elsewhere>>

\* An awaited storage call outside the inner try blocks throws (the
\* database is unavailable): the outer catch answers 500.
StorageThrows(r) ==
    /\ faults < MaxFaults
    /\ req[r].pc \in {"getCart", "createOrder", "createOrderItem",
                      "createPayment", "clearCart"}
    /\ faults' = faults + 1
    /\ req' = [req EXCEPT ![r] = Caught(r, "storage failure", 0)]
    /\ UNCHANGED <<variants, carts, orders, orderItems, payments, supplied,
                   adminOps,
                   elsewhere>>

\* validateStockAvailability itself throws for one line.
ValidateStockThrows(r, i) ==
    /\ faults < MaxFaults
    /\ i \in req[r].pending
    /\ faults' = faults + 1
    /\ req' = [req EXCEPT ![r] =
         IF req[r].pc = "validate"
         THEN [Caught(r, "storage failure", 0)
                 EXCEPT !.pending = req[r].pending \ {i}]
         ELSE [req[r] EXCEPT !.pending = req[r].pending \ {i}]]
    /\ UNCHANGED <<variants, carts, orders, orderItems, payments, supplied,
                   adminOps,
                   elsewhere>>

\* ------------------------------------------ POST /api/discounts/apply
\* What a client may send: a discount of the table, and any order id.
ApplyBodies ==
    [discountId : Discounts, userId : Users, sessionId : {1},
     orderId : 1..MaxReqs]

\* The body's four fields go to storage.applyDiscount as they are and the
\* usage row is answered.
PostDiscountsApply(body) ==
    /\ calls < MaxCalls
    /\ calls' = calls + 1
    /\ discounts' = DiscountsAfterApply(body.discountId)
    /\ discountUsage' =
           Append(discountUsage,
                  UsageRow(body.discountId, body.userId, body.sessionId,
                           body.orderId))
    /\ UNCHANGED <<variants, carts, orders, orderItems, payments, req,
                   supplied, faults, adminOps, users, tracked, stockPut,
                   rest>>

\* ------------------------------------------- GET /api/discounts/active
\* storage.getActiveDiscounts: every discount of the table is active.
ActiveDiscounts == Discounts

\* storage.getDiscountUsage(discountId, userId): the user's redemptions.
GetDiscountUsage(d, u) ==
    Cardinality({i \in 1..Len(discountUsage) :
                    discountUsage[i].discountId = d
                    /\ discountUsage[i].userId = u})

\* The second registration of the route, behind authenticate: the active
\* discounts without those the user redeemed, if per-user, and without
\* those that reached their usage limit.
AvailableDiscounts(u) ==
    {d \in ActiveDiscounts :
        /\ ~(discounts[d].perUser /\ GetDiscountUsage(d, u) > 0)
        /\ ~(discounts[d].usageLimit > 0
             /\ discounts[d].usedCount >= discounts[d].usageLimit)}

\* GET /api/discounts/active by an authenticated user: the route is
\* registered twice and the first registration, which sends the active
\* discounts as they are, answers every request.
GetActiveDiscounts(u) ==
    /\ calls < MaxCalls
    /\ calls' = calls + 1
    /\ activeAnswer' =
         [seq |-> activeAnswer.seq + 1, userId |-> u, status |-> 200,
          discounts |-> ActiveDiscounts,
          available |-> AvailableDiscounts(u)]
    /\ UNCHANGED <<variants, carts, orders, orderItems, payments, req,
                   supplied, faults, adminOps, discounts, discountUsage,
                   users, tracked, stockPut, removed, softDeleted,
                   insertedVariants, reviews, rate, history, deleteAnswer,
                   forgot, deletedUsers, accountAnswer>>

\* ------------------------------------------- POST /api/orders/tracking
\* String.prototype.trim on the strings a lookup or an e-mail change sends.
Trim(s) ==
    CASE s = " " -> ""
      [] s = " AAA000 " -> "AAA000"
      [] s = " A@X.IN " -> "A@X.IN"
      [] OTHER -> s

\* String.prototype.toLowerCase on the same strings.
ToLowerCase(s) ==
    CASE s = "A@X.IN" -> "a@x.in"
      [] s = "B@x.in" -> "b@x.in"
      [] OTHER -> s

\* What a client may send: order numbers and e-mail addresses as typed.
TrackingBodies ==
    [orderNumber : {" ", " AAA000 ", "AAA001"},
     email : {" ", " A@X.IN ", OtherEmail, ForeignEmail}]

TrackingResponse(status, message, order) ==
    [status |-> status, message |-> message, order |-> order]

TrackingNotFound ==
    TrackingResponse(404,
        "No order found with this order number and email combination.", 0)

EmailNeverRejected(accountEmail, email) == FALSE

\* order.user.email.toLowerCase() !== email.trim().toLowerCase()
EmailRejected(accountEmail, email) ==
    ToLowerCase(accountEmail) # ToLowerCase(Trim(email))

\* The handler: both fields are required; findFirst picks an order with the
\* trimmed tracking id and a user; the joined user's e-mail must equal the
\* body's; the answer shows the order.
TrackOrder(body) ==
    /\ calls < MaxCalls
    /\ calls' = calls + 1
    /\ LET found == {o \in 1..Len(orders) :
                        /\ orders[o].trackingId = Trim(body.orderNumber)
                        /\ orders[o].userId # 0}
           answer(response) ==
               tracked' = [seq |-> calls + 1,
                           orderNumber |-> body.orderNumber,
                           email |-> body.email, response |-> response]
       IN  IF Trim(body.orderNumber) = "" \/ Trim(body.email) = ""
           THEN answer(TrackingResponse(400,
                           "Order number and email are required", 0))
           ELSE IF found = {}
           THEN answer(TrackingNotFound)
           ELSE \E o \in found :
                   IF EmailRejected(users[orders[o].userId].email, body.email)
                   THEN answer(TrackingNotFound)
                   ELSE answer(TrackingResponse(200, "", o))
    /\ UNCHANGED <<variants, carts, orders, orderItems, payments, req,
                   supplied, faults, adminOps, discounts, discountUsage,
                   users, stockPut,
                   rest>>

\* ----------------------------------------- POST /api/auth/change-email
\* /^[^\s@]+@[^\s@]+\.[^\s@]+$/ on the values a client sends.
EmailFormatOk(value) == value \in {AccountEmail, "B@x.in"}

\* What a client may send as the new address, with a right or wrong OTP.
ChangeEmailBodies ==
    [value : {"", "b-at-x.in", AccountEmail, "B@x.in"},
     otpOk : BOOLEAN]

\* The handler: value and otp present, format, OTP, "Email already in
\* use", then the user's row gets the new address.
ChangeEmail(u, body) ==
    /\ calls < MaxCalls
    /\ calls' = calls + 1
    /\ users' =
          IF /\ body.value # ""
             /\ EmailFormatOk(body.value)
             /\ body.otpOk
             /\ \A w \in Users : users[w].email # body.value
          THEN [users EXCEPT ![u].email = body.value]
          ELSE users
    /\ UNCHANGED <<variants, carts, orders, orderItems, payments, req,
                   supplied, faults, adminOps, discounts, discountUsage,
                   tracked, stockPut,
                   rest>>

\* --------------------------------------- PUT /api/admin/products/:id
\* The variants table after the update of one listed variant.
UpdatedVariants(variant) ==
    [variants EXCEPT ![variant.id] =
        [price |-> variant.price,
         discountPrice |-> variant.discountPrice,
         stockQuantity |-> variant.stockQuantity]]

\* An update that also rewrites the price on the variant's order items.
UpdateProductRepricingItems(productId, variant) ==
    /\ adminOps < MaxAdminOps
    /\ ProductOf(variant.id) = productId
    /\ adminOps' = adminOps + 1
    /\ variants' = UpdatedVariants(variant)
    /\ orderItems' = [i \in 1..Len(orderItems) |->
                        IF orderItems[i].variantId = variant.id
                        THEN [orderItems[i] EXCEPT !.price = ItemPrice(variant)]
                        ELSE orderItems[i]]
    /\ supplied' = [supplied EXCEPT ![variant.id] =
                      @ + variant.stockQuantity
                        - variants[variant.id].stockQuantity]
    /\ UNCHANGED <<carts, orders, payments, req, faults,
                   elsewhere>>

\* updateProduct, one transaction: every variant the body lists with an id
\* gets the body's price, discountPrice and stockQuantity.  The body lists
\* the product's variant, so none is removed and none inserted.
UpdateProduct(productId, variant) ==
    /\ adminOps < MaxAdminOps
    /\ ProductOf(variant.id) = productId
    /\ adminOps' = adminOps + 1
    /\ variants' = UpdatedVariants(variant)
    /\ supplied' = [supplied EXCEPT ![variant.id] =
                      @ + variant.stockQuantity
                        - variants[variant.id].stockQuantity]
    /\ UNCHANGED <<carts, orders, orderItems, payments, req, faults,
                   elsewhere>>

\* Bodies the admin form sends for a variant.
VariantUpdates ==
    [id : Variants, price : Prices, discountPrice : DiscountPrices,
     stockQuantity : {InitStock}]

\* The rows of product_variants a product has: the catalogue's rows that
\* were not deleted and the rows inserted since, row i of which has the
\* id NumVariants + i.
VariantRowsOf(productId) ==
    {v \in Variants \ removed : ProductOf(v) = productId}
    \cup {NumVariants + i : i \in {j \in 1..Len(insertedVariants) :
                                      /\ insertedVariants[j] = productId
                                      /\ NumVariants + j \notin removed}}

\* updateProduct with a body whose only variant has no id: the product's
\* rows, none of which the body lists, are deleted from product_variants
\* and the body's variant is inserted as a new row.
UpdateProductNewVariant(productId) ==
    /\ adminOps < MaxAdminOps
    /\ adminOps' = adminOps + 1
    /\ removed' = removed \cup VariantRowsOf(productId)
    /\ insertedVariants' = Append(insertedVariants, productId)
    /\ UNCHANGED <<variants, carts, orders, orderItems, payments, req,
                   supplied, faults, discounts, discountUsage, calls, users,
                   tracked, stockPut, softDeleted, reviews, rate, history,
                   answers>>

\* updateProduct with an empty list of variants: every row of the product
\* is deleted from product_variants and none is inserted.
UpdateProductNoVariants(productId) ==
    /\ removed' = removed \cup VariantRowsOf(productId)
    /\ UNCHANGED <<variants, carts, orders, orderItems, payments, req,
                   supplied, faults, adminOps, discounts, discountUsage,
                   calls, users, tracked, stockPut, softDeleted,
                   insertedVariants, reviews, rate, history, answers>>

\* ------------------------------------ DELETE /api/admin/products/:id
\* Order items of the variants whose order is neither delivered nor
\* shipped.
PendingOrderItems(variantIds) ==
    {i \in 1..Len(orderItems) :
        /\ orderItems[i].variantId \in variantIds
        /\ orders[orderItems[i].orderId].status \notin {"delivered", "shipped"}}

\* The orders of the variants that are neither delivered nor cancelled.
OpenOrdersOf(variantIds) ==
    {orderItems[i].orderId : i \in {j \in 1..Len(orderItems) :
        /\ orderItems[j].variantId \in variantIds
        /\ orders[orderItems[j].orderId].status \notin {"delivered", "cancelled"}}}

DeleteProductResponse(rows) ==
    IF rows = {}
    THEN [status |-> 400,
          message |-> "No variants found for this product, cannot delete"]
    ELSE IF PendingOrderItems(rows) # {}
    THEN [status |-> 400,
          message |-> "Cannot delete product because some variants have pending orders"]
    ELSE [status |-> 200,
          message |-> "Product variants soft-deleted successfully"]

\* deleteProduct: refused when the product has no variant row or one of
\* them has a pending order; otherwise every row is flagged isDeleted.
DeleteProduct(productId) ==
    /\ deleteAnswer.seq < MaxCalls
    /\ LET rows == VariantRowsOf(productId)
           response == DeleteProductResponse(rows)
       IN  /\ softDeleted' =
                IF response.status = 200 THEN softDeleted \cup rows
                ELSE softDeleted
           /\ deleteAnswer' =
                [seq |-> deleteAnswer.seq + 1,
                 productId |-> productId,
                 hadRows |-> rows # {},
                 open |-> OpenOrdersOf(rows),
                 repeated |-> productId \in deleteAnswer.refused,
                 refused |->
                    IF rows # {} /\ response.status = 400
                    THEN deleteAnswer.refused \cup {productId}
                    ELSE deleteAnswer.refused,
                 response |-> response]
    /\ UNCHANGED <<variants, carts, orders, orderItems, payments, req,
                   supplied, faults, adminOps, discounts, discountUsage,
                   calls, users, tracked, stockPut, removed,
                   insertedVariants, reviews, rate, history, activeAnswer,
                   forgot, deletedUsers, accountAnswer>>

\* ------------------------------------------------- order fulfilment
\* The admin order module moves an order along
\* confirmed, processing, shipped, delivered.
NextStatus(status) ==
    CASE status = "confirmed" -> "processing"
      [] status = "processing" -> "shipped"
      [] status = "shipped" -> "delivered"
      [] OTHER -> status

AdvanceOrder(o) ==
    /\ o \in 1..Len(orders)
    /\ orders[o].status # "delivered"
    /\ orders' = [orders EXCEPT ![o].status = NextStatus(@)]
    /\ UNCHANGED <<variants, carts, orderItems, payments, req, supplied,
                   faults, adminOps, elsewhere>>

\* POST /api/orders/:id/request-cancellation: the customer asks for the
\* cancellation of an order that was not shipped yet.
RequestOrderCancellation(o) ==
    /\ o \in 1..Len(orders)
    /\ orders[o].status \in {"confirmed", "processing"}
    /\ orders' = [orders EXCEPT ![o].status = "cancellation_requested"]
    /\ UNCHANGED <<variants, carts, orderItems, payments, req, supplied,
                   faults, adminOps, elsewhere>>

\* The units an order reserved of a variant.
UnitsOf(o, v) ==
    LET RECURSIVE Sum(_)
        Sum(i) == IF i = 0 THEN 0
                  ELSE Sum(i - 1) +
                       (IF orderItems[i].orderId = o /\ orderItems[i].variantId = v
                        THEN orderItems[i].quantity ELSE 0)
    IN  Sum(Len(orderItems))

\* POST /api/admin/orders/:id/process-cancellation, approved: the order is
\* cancelled and the units it reserved go back on sale.
ProcessCancellationRequest(o) ==
    /\ o \in 1..Len(orders)
    /\ orders[o].status = "cancellation_requested"
    /\ orders' = [orders EXCEPT ![o].status = "cancelled"]
    /\ variants' = [v \in Variants |->
                      [variants[v] EXCEPT !.stockQuantity = @ + UnitsOf(o, v)]]
    /\ UNCHANGED <<carts, orderItems, payments, req, supplied, faults,
                   adminOps, elsewhere>>

\* ------------------------- POST /api/orders/:orderId/rate-product
\* The accounts that can authenticate: the shop's customer and another.
Accounts == Users \cup {2}

\* What a client may send: a rating of product 1 from any order, a body
\* without product and a rating out of range.
RatingBodies ==
    {[orderId |-> o, productId |-> 1, rating |-> 5] : o \in 1..MaxReqs}
    \cup {[orderId |-> 1, productId |-> 0, rating |-> 5],
          [orderId |-> 1, productId |-> 1, rating |-> 6]}

RateRespond(k, status, message) ==
    [rate[k] EXCEPT !.pc = "done",
                    !.response = [status |-> status, message |-> message]]

\* The handler from its entry to the call of storage.getOrderById.
RateReceive(k, u, body) ==
    /\ rate[k].pc = "idle"
    /\ \A j \in Ratings : j < k => rate[j].pc # "idle"
    /\ LET started == [rate[k] EXCEPT !.userId = u,
                                      !.orderId = body.orderId,
                                      !.productId = body.productId,
                                      !.rating = body.rating]
       IN  rate' = [rate EXCEPT ![k] =
             IF \/ body.productId = 0 \/ body.rating = 0
                \/ body.rating < 1 \/ body.rating > 5
             THEN [started EXCEPT
                     !.pc = "done",
                     !.response = [status |-> 400,
                                   message |-> "Invalid product ID or rating"]]
             ELSE [started EXCEPT !.pc = "getOrderById"]]
    /\ UNCHANGED <<variants, carts, orders, orderItems, payments, req,
                   supplied, faults, adminOps, discounts, discountUsage,
                   calls, users, tracked, stockPut, removed, softDeleted,
                   insertedVariants, reviews, history,
                   answers>>

\* storage.getOrderById returns: the order must be the user's and
\* delivered; then storage.canUserReviewProduct is called.
RateGetOrder(k) ==
    /\ rate[k].pc = "getOrderById"
    /\ rate' = [rate EXCEPT ![k] =
         IF \/ rate[k].orderId \notin 1..Len(orders)
            \/ orders[rate[k].orderId].userId # rate[k].userId
         THEN RateRespond(k, 404, "Order not found")
         ELSE IF orders[rate[k].orderId].status # "delivered"
         THEN RateRespond(k, 400,
                  "Can only rate products from delivered orders")
         ELSE [rate[k] EXCEPT !.pc = "canUserReviewProduct"]]
    /\ UNCHANGED <<variants, carts, orders, orderItems, payments, req,
                   supplied, faults, adminOps, discounts, discountUsage,
                   calls, users, tracked, stockPut, removed, softDeleted,
                   insertedVariants, reviews, history,
                   answers>>

\* storage.canUserReviewProduct(userId, productId): the user has no review
\* of the product yet.
CanUserReviewProduct(userId, productId) ==
    \A i \in 1..Len(reviews) :
        ~(reviews[i].userId = userId /\ reviews[i].productId = productId)

\* storage.canUserReviewProduct returns; then storage.addProductReview is
\* called.
RateCanReview(k) ==
    /\ rate[k].pc = "canUserReviewProduct"
    /\ rate' = [rate EXCEPT ![k] =
         IF ~CanUserReviewProduct(rate[k].userId, rate[k].productId)
         THEN RateRespond(k, 400, "You have already rated this product")
         ELSE [rate[k] EXCEPT !.pc = "addProductReview"]]
    /\ UNCHANGED <<variants, carts, orders, orderItems, payments, req,
                   supplied, faults, adminOps, discounts, discountUsage,
                   calls, users, tracked, stockPut, removed, softDeleted,
                   insertedVariants, reviews, history,
                   answers>>

\* The row storage.addProductReview is given.
ReviewRow(k) ==
    [productId |-> rate[k].productId, userId |-> rate[k].userId,
     orderId |-> rate[k].orderId, rating |-> rate[k].rating,
     verified |-> TRUE]

\* storage.addProductReview returns and the review is answered.
RateAddReview(k) ==
    /\ rate[k].pc = "addProductReview"
    /\ reviews' = Append(reviews, ReviewRow(k))
    /\ rate' = [rate EXCEPT ![k] =
                  RateRespond(k, 200, "Rating submitted successfully")]
    /\ UNCHANGED <<variants, carts, orders, orderItems, payments, req,
                   supplied, faults, adminOps, discounts, discountUsage,
                   calls, users, tracked, stockPut, removed, softDeleted,
                   insertedVariants, history,
                   answers>>

\* ------------------------------------------ GET /api/orders/history
\* where userId = user.id order by createdAt desc: the ids of the user's
\* orders in an order the database may give, orders created at the same
\* instant in either order.
OrdersNewestFirst(userId) ==
    LET own == {o \in 1..Len(orders) : orders[o].userId = userId}
    IN  {list \in [1..Cardinality(own) -> own] :
            /\ \A i, j \in 1..Cardinality(own) :
                  i # j => list[i] # list[j]
            /\ \A i, j \in 1..Cardinality(own) :
                  i < j => orders[list[i]].createdAt
                              >= orders[list[j]].createdAt}

\* The orders whose items and payment are all persisted.
CompleteOrders ==
    {o \in 1..Len(orders) :
        \E r \in Reqs :
            /\ req[r].order = o
            /\ req[r].created = Len(req[r].cart)
            /\ req[r].paymentMethod = "razorpay" => req[r].payment # 0}

\* Step 1: the user's orders are read; without any, { orders: [] } is
\* answered.  seen and complete remember the tables as this read saw them.
HistoryOrders(u) ==
    /\ calls < MaxCalls
    /\ history.pc \in {"idle", "done"}
    /\ calls' = calls + 1
    /\ \E list \in OrdersNewestFirst(u) :
          history' = [pc |-> IF Len(list) = 0 THEN "done" ELSE "items",
                      userId |-> u, ordersList |-> list, items |-> {},
                      seen |-> Len(orders), complete |-> CompleteOrders,
                      response |-> [status |-> IF Len(list) = 0 THEN 200
                                               ELSE 0,
                                    orders |-> <<>>]]
    /\ UNCHANGED <<variants, carts, orders, orderItems, payments, req,
                   supplied, faults, adminOps, discounts, discountUsage,
                   users, tracked, stockPut, removed, softDeleted,
                   insertedVariants, reviews, rate,
                   answers>>

\* Step 2: where orderItems.orderId in orderIds.
HistoryItems ==
    /\ history.pc = "items"
    /\ LET orderIds == {history.ordersList[i] :
                           i \in 1..Len(history.ordersList)}
       IN  history' = [history EXCEPT
             !.pc = "payments",
             !.items = {i \in 1..Len(orderItems) :
                           orderItems[i].orderId \in orderIds}]
    /\ UNCHANGED <<variants, carts, orders, orderItems, payments, req,
                   supplied, faults, adminOps, discounts, discountUsage,
                   calls, users, tracked, stockPut, removed, softDeleted,
                   insertedVariants, reviews, rate,
                   answers>>

ItemsOfAnyOrder(items, orderId) == items

\* items.filter((i) => i.orderId === order.id)
ItemsFor(items, orderId) ==
    {i \in items : orderItems[i].orderId = orderId}

\* paymentsList.find((p) => p.orderId === order.id), null without one
PaymentFor(paymentsList, orderId) ==
    LET own == {p \in paymentsList : payments[p].orderId = orderId}
    IN  IF own = {} THEN Null
        ELSE Some(CHOOSE p \in own : \A q \in own : p <= q)

\* Steps 3 to 5: the payments of these orders are read (no order carries a
\* discountId, so no discount is), every order is combined with its items
\* and its payment, and the list is answered.
HistoryPayments ==
    /\ history.pc = "payments"
    /\ LET list == history.ordersList
           orderIds == {list[i] : i \in 1..Len(list)}
           paymentsList == {p \in 1..Len(payments) :
                               payments[p].orderId \in orderIds}
       IN  history' = [history EXCEPT
             !.pc = "done",
             !.response =
                 [status |-> 200,
                  orders |-> [i \in 1..Len(list) |->
                     [id |-> list[i],
                      items |-> ItemsFor(history.items, list[i]),
                      payment |-> PaymentFor(paymentsList, list[i])]]]]
    /\ UNCHANGED <<variants, carts, orders, orderItems, payments, req,
                   supplied, faults, adminOps, discounts, discountUsage,
                   calls, users, tracked, stockPut, removed, softDeleted,
                   insertedVariants, reviews, rate,
                   answers>>

\* Bodies of the admin form that restock a variant at its catalogue price.
RestockUpdates ==
    {variant \in [id : Variants, price : Prices, discountPrice : {Some(0)},
                  stockQuantity : 0..InitStock] :
        variant.price = PriceOf(variant.id)}

\* ------------------------------- PUT /api/admin/products/:id/stock
\* A JSON value of the body: its typeof and, for a number, the number.
JsonNumber(n) == [typeof |-> "number", value |-> n]
JsonString(n) == [typeof |-> "string", value |-> n]

\* What an admin client may send as stockQuantity: nothing, a numeral in a
\* string, a negative number, zero, the full stock.
StockBodies ==
    {[typeof |-> "undefined", value |-> 0], JsonString(InitStock),
     JsonNumber(-1), JsonNumber(0), JsonNumber(InitStock)}

StockQuantityNeverInvalid(stockQuantity) == FALSE

\* typeof stockQuantity !== "number" || stockQuantity < 0
InvalidStockQuantity(stockQuantity) ==
    \/ stockQuantity.typeof # "number"
    \/ stockQuantity.value < 0

\* storage.updateProductStock, the Stock Ledger's adjust: the stock of the
\* product's variant becomes the new quantity.
AdjustedStock(productId, newQuantity) ==
    [v \in Variants |->
        IF ProductOf(v) = productId
        THEN [variants[v] EXCEPT !.stockQuantity = newQuantity]
        ELSE variants[v]]

\* The handler: an invalid quantity is answered 400, a valid one is
\* written and answered 200.
PutProductStock(productId, stockQuantity) ==
    /\ calls < MaxCalls
    /\ calls' = calls + 1
    /\ LET invalid == InvalidStockQuantity(stockQuantity)
           answer(status, message) ==
               stockPut' = [seq |-> calls + 1, productId |-> productId,
                            stockQuantity |-> Some(stockQuantity),
                            response |-> [status |-> status,
                                          message |-> message]]
       IN  /\ variants' = IF invalid THEN variants
                          ELSE AdjustedStock(productId, stockQuantity.value)
           /\ IF invalid
              THEN answer(400, "Invalid stock quantity")
              ELSE answer(200, "Stock updated successfully")
    /\ supplied' = [v \in Variants |->
                      supplied[v] + variants'[v].stockQuantity
                                  - variants[v].stockQuantity]
    /\ UNCHANGED <<carts, orders, orderItems, payments, req, faults,
                   adminOps, discounts, discountUsage, users, tracked,
                   rest>>

\* --------------------------------- DELETE /api/user/delete-account
\* The code sent to the user's mobile for purpose account_deletion, and a
\* code that was never sent.
IssuedOtp == "123456"
WrongOtp == "000000"

\* What a client may send: no otp, the code it was sent, another code.
DeleteAccountBodies == [otp : {Null, Some(IssuedOtp), Some(WrongOtp)}]

\* smsService.verifyOTP(user.mobile, otp, "account_deletion").success
VerifyOTP(otp) == otp = IssuedOtp

\* if (otp) { ... if (!result.success) return res.status(400) }
OtpRefused(otp) == otp # Null /\ ~VerifyOTP(otp[1])

\* The cart whose session id is the user's mobile number.
MobileSession(u) == u

\* The user's orders.
OrdersOfUser(u) == {o \in 1..Len(orders) : orders[o].userId = u}

\* The handler: the optional OTP test, then the deletion of the user's
\* discount usage, reviews, order items, orders, payments and carts and
\* of the user.
DeleteAccount(u, body) ==
    /\ u \notin deletedUsers
    /\ accountAnswer.seq < MaxCalls
    /\ IF OtpRefused(body.otp)
       THEN /\ accountAnswer' =
                 [seq |-> accountAnswer.seq + 1, userId |-> u,
                  otp |-> body.otp,
                  response |-> [status |-> 400, message |-> "Invalid OTP"]]
            /\ UNCHANGED <<discountUsage, reviews, orderItems, orders,
                           payments, carts, deletedUsers>>
       ELSE /\ accountAnswer' =
                 [seq |-> accountAnswer.seq + 1, userId |-> u,
                  otp |-> body.otp,
                  response |->
                     [status |-> 200,
                      message |-> "Account and related data deleted successfully"]]
            /\ discountUsage' =
                 SelectSeq(discountUsage, LAMBDA row : row.userId # u)
            /\ reviews' = SelectSeq(reviews, LAMBDA row : row.userId # u)
            /\ orderItems' =
                 SelectSeq(orderItems,
                           LAMBDA row : row.orderId \notin OrdersOfUser(u))
            /\ orders' = SelectSeq(orders, LAMBDA row : row.userId # u)
            /\ payments' = SelectSeq(payments, LAMBDA row : row.userId # u)
            /\ carts' = [carts EXCEPT ![MobileSession(u)] = <<>>]
            /\ deletedUsers' = deletedUsers \cup {u}
    /\ UNCHANGED <<variants, req, supplied, faults, adminOps, discounts,
                   calls, users, tracked, stockPut, removed, softDeleted,
                   insertedVariants, rate, history, deleteAnswer,
                   activeAnswer, forgot>>

\* ---------------------------------- POST /api/auth/forgot-password
\* What a client may send: no email, the account's address or another
\* one; no number, a number as a JSON number, a short one, the account's
\* number or another one.
ForgotBodies ==
    [email : {"", AccountEmail, ForeignEmail},
     number : {Null, Some(JsonNumber(AccountNumber)), Some(JsonString("98765")),
               Some(JsonString(AccountNumber)),
               Some(JsonString("9123456780"))}]

\* crypto.randomBytes(32).toString("hex")
ResetTokens == {"token-1", "token-2"}

\* !number || typeof number !== "string" || number.length < 10
NumberInvalid(number) ==
    \/ number = Null
    \/ number[1].typeof # "string"
    \/ Len(number[1].value) < 10

\* storage.getUserByEmailNumber(email, number): the users with this
\* address and this mobile number.
GetUserByEmailNumber(email, number) ==
    {u \in Users \ deletedUsers :
        users[u].email = email /\ users[u].mobile = number[1].value}

GenericAnswer ==
    [status |-> 200,
     message |-> "If your email is registered, you will receive a password reset link shortly."]

\* The handler.  emailThrows: emailService.sendPasswordResetEmail rejects,
\* which the handler's only catch answers.
ForgotPassword(body, resetToken, emailThrows) ==
    /\ forgot.seq < MaxCalls
    /\ LET wellFormed == body.email # "" /\ ~NumberInvalid(body.number)
           found == IF wellFormed
                    THEN GetUserByEmailNumber(body.email, body.number)
                    ELSE {}
       IN  /\ emailThrows => (found # {} /\ faults < MaxFaults)
           /\ faults' = IF emailThrows THEN faults + 1 ELSE faults
           /\ users' = [u \in Users |->
                          IF u \in found
                          THEN [users[u] EXCEPT !.resetToken = Some(resetToken)]
                          ELSE users[u]]
           /\ forgot' =
                [seq |-> forgot.seq + 1,
                 email |-> body.email,
                 number |-> body.number,
                 registered |-> found # {},
                 response |->
                    IF body.email = ""
                    THEN [status |-> 400, message |-> "Email is required"]
                    ELSE IF NumberInvalid(body.number)
                    THEN [status |-> 400, message |-> "Valid number is required"]
                    ELSE IF found = {}
                    THEN GenericAnswer
                    ELSE IF emailThrows
                    THEN [status |-> 500,
                          message |-> "Failed to process password reset request"]
                    ELSE GenericAnswer]
    /\ UNCHANGED <<variants, carts, orders, orderItems, payments, req,
                   supplied, adminOps, discounts, discountUsage, calls,
                   tracked, stockPut, removed, softDeleted,
                   insertedVariants, reviews, rate, history, deleteAnswer,
                   activeAnswer, deletedUsers, accountAnswer>>

\* ------------------------------------------------------ specifications
\* One step of some checkout request.
Checkout ==
    \/ \E r \in Reqs, u \in Users, body \in RequestBodies : Receive(r, u, body)
    \/ \E r \in Reqs : GetCart(r)
    \/ \E r \in Reqs, i \in 1..NumVariants : ValidateStock(r, i)
    \/ \E r \in Reqs : CreateOrder(r, FirstTrackingId, 1)
    \/ \E r \in Reqs : CreateOrderItem(r)
    \/ \E r \in Reqs : CreatePayment(r)
    \/ \E r \in Reqs : SendOrderNotification(r)
    \/ \E r \in Reqs : ClearCart(r)

\* Checkouts, during which a storage call may throw.
Next ==
    \/ Checkout
    \/ \E r \in Reqs : StorageThrows(r)
    \/ \E r \in Reqs, i \in 1..NumVariants : ValidateStockThrows(r, i)

Spec == Init /\ [][Next]_vars

\* Checkouts that carry an applied discount, during which recording the
\* discount or clearing the cart may throw, next to direct calls of
\* POST /api/discounts/apply.  At the start every variant is fully stocked,
\* every cart line asks for one unit and the sessions hold the same lines.
InitDiscount ==
    /\ Init
    /\ \A v \in Variants : variants[v].stockQuantity = InitStock
    /\ \A s \in Sessions : \A i \in 1..Len(carts[s]) : carts[s][i].quantity = 1
    /\ \A s, t \in Sessions : carts[s] = carts[t]

NextDiscount ==
    \/ \E r \in Reqs, u \in Users, body \in DiscountedBodies :
          Receive(r, u, body)
    \/ \E r \in Reqs : GetCart(r)
    \/ \E r \in Reqs, i \in 1..NumVariants : ValidateStock(r, i)
    \/ \E r \in Reqs : CreateOrder(r, FirstTrackingId, 1)
    \/ \E r \in Reqs : CreateOrderItem(r)
    \/ \E r \in Reqs : CreatePayment(r)
    \/ \E r \in Reqs : SendOrderNotification(r)
    \/ \E r \in Reqs : ApplyDiscount(r)
    \/ \E r \in Reqs : ApplyDiscountThrows(r)
    \/ \E r \in Reqs : ClearCart(r)
    \/ \E r \in Reqs : req[r].pc = "clearCart" /\ StorageThrows(r)
    \/ \E body \in ApplyBodies : PostDiscountsApply(body)

SpecDiscount == InitDiscount /\ [][NextDiscount]_vars

\* Cash-on-delivery checkouts of one-unit carts, tracking lookups and
\* changes of the account's e-mail address.
InitTracking ==
    /\ InitDiscount
    /\ \A s \in Sessions : Len(carts[s]) = 1

NextTracking ==
    \/ \E r \in Reqs, u \in Users, body \in TrackedBodies :
          Receive(r, u, body)
    \/ \E r \in Reqs : GetCart(r)
    \/ \E r \in Reqs, i \in 1..NumVariants : ValidateStock(r, i)
    \/ \E r \in Reqs, t \in TrackingIds : CreateOrder(r, t, 1)
    \/ \E r \in Reqs : CreateOrderItem(r)
    \/ \E r \in Reqs : SendOrderNotification(r)
    \/ \E r \in Reqs : ClearCart(r)
    \/ \E body \in TrackingBodies : TrackOrder(body)
    \/ \E u \in Users, body \in ChangeEmailBodies : ChangeEmail(u, body)

SpecTracking == InitTracking /\ [][NextTracking]_vars

\* Cash-on-delivery checkouts while the admin restocks through the product
\* form and through the stock endpoint, from the start of the discount
\* scenario.
CodBodies ==
    [sessionId : Sessions, paymentMethod : {"cod"},
     razorpay : {NoRazorpayFields}, appliedDiscount : {Null},
     amount : {SentAmount},
     customerInfo : {[email |-> AccountEmail]}]

NextStock ==
    \/ \E r \in Reqs, u \in Users, body \in CodBodies : Receive(r, u, body)
    \/ \E r \in Reqs : GetCart(r)
    \/ \E r \in Reqs, i \in 1..NumVariants : ValidateStock(r, i)
    \/ \E r \in Reqs : CreateOrder(r, FirstTrackingId, 1)
    \/ \E r \in Reqs : CreateOrderItem(r)
    \/ \E r \in Reqs : SendOrderNotification(r)
    \/ \E r \in Reqs : ClearCart(r)
    \/ \E p \in Variants, variant \in RestockUpdates :
          UpdateProduct(p, variant)
    \/ \E p \in Variants, stockQuantity \in StockBodies :
          PutProductStock(p, stockQuantity)

SpecStock == InitDiscount /\ [][NextStock]_vars

\* Cash-on-delivery checkouts of one-unit carts and their fulfilment;
\* once every checkout that arrived is answered, the admin deletes a
\* product or replaces its variant, after which no checkout arrives.
Quiet == \A r \in Reqs : req[r].pc \in {"idle", "done"} /\ req[r].pending = {}

NextCatalogue ==
    \/ \E r \in Reqs, u \in Users, body \in CodBodies :
          adminOps = 0 /\ Receive(r, u, body)
    \/ \E r \in Reqs : GetCart(r)
    \/ \E r \in Reqs, i \in 1..NumVariants : ValidateStock(r, i)
    \/ \E r \in Reqs : CreateOrder(r, FirstTrackingId, 1)
    \/ \E r \in Reqs : CreateOrderItem(r)
    \/ \E r \in Reqs : SendOrderNotification(r)
    \/ \E r \in Reqs : ClearCart(r)
    \/ \E o \in 1..MaxReqs : AdvanceOrder(o)
    \/ \E p \in Variants : Quiet /\ DeleteProduct(p)
    \/ \E p \in Variants : Quiet /\ UpdateProductNewVariant(p)

SpecCatalogue == InitTracking /\ [][NextCatalogue]_vars

\* Cash-on-delivery checkouts of one-unit carts, their fulfilment, and
\* rating requests of the customer and of another account, which arrive
\* once every checkout that arrived is answered and after which no
\* checkout arrives.
NextRating ==
    \/ \E r \in Reqs, u \in Users, body \in CodBodies :
          (\A k \in Ratings : rate[k].pc = "idle") /\ Receive(r, u, body)
    \/ \E r \in Reqs : GetCart(r)
    \/ \E r \in Reqs, i \in 1..NumVariants : ValidateStock(r, i)
    \/ \E r \in Reqs : CreateOrder(r, FirstTrackingId, 1)
    \/ \E r \in Reqs : CreateOrderItem(r)
    \/ \E r \in Reqs : SendOrderNotification(r)
    \/ \E r \in Reqs : ClearCart(r)
    \/ \E o \in 1..MaxReqs : AdvanceOrder(o)
    \/ \E k \in Ratings, u \in Accounts, body \in RatingBodies :
          Quiet /\ RateReceive(k, u, body)
    \/ \E k \in Ratings : RateGetOrder(k)
    \/ \E k \in Ratings : RateCanReview(k)
    \/ \E k \in Ratings : RateAddReview(k)

SpecRating == InitTracking /\ [][NextRating]_vars

\* Checkouts of one-unit carts by two accounts, each in the session of its
\* number, paid on delivery or by razorpay, and order history requests of
\* either account.
HistoryBodies ==
    CodBodies
    \cup
    [sessionId : Sessions, paymentMethod : {"razorpay"},
     razorpay : {[razorpayOrderId |-> 1, razorpayPaymentId |-> 1,
                  razorpaySignature |-> Hmac(ServerSecret, SignedBody(1, 1))]},
     appliedDiscount : {Null}, amount : {SentAmount},
     customerInfo : {[email |-> AccountEmail]}]

NextHistory ==
    \/ \E r \in Reqs, u \in Accounts, body \in HistoryBodies :
          body.sessionId = u /\ Receive(r, u, body)
    \/ \E r \in Reqs : GetCart(r)
    \/ \E r \in Reqs, i \in 1..NumVariants : ValidateStock(r, i)
    \/ \E r \in Reqs, elapsed \in {0, 1} :
          CreateOrder(r, FirstTrackingId, elapsed)
    \/ \E r \in Reqs : CreateOrderItem(r)
    \/ \E r \in Reqs : CreatePayment(r)
    \/ \E r \in Reqs : SendOrderNotification(r)
    \/ \E r \in Reqs : ClearCart(r)
    \/ \E u \in Accounts : HistoryOrders(u)
    \/ HistoryItems
    \/ HistoryPayments

SpecHistory == InitTracking /\ [][NextHistory]_vars

\* Checkouts while the admin edits the catalogue: at the start every
\* variant is fully stocked, every cart line asks for one unit and the
\* sessions hold the same lines.
InitAdmin ==
    /\ Init
    /\ \A v \in Variants : variants[v].stockQuantity = InitStock
    /\ \A s \in Sessions : \A i \in 1..Len(carts[s]) : carts[s][i].quantity = 1
    /\ \A s, t \in Sessions : carts[s] = carts[t]

NextAdmin ==
    \/ Checkout
    \/ \E p \in Variants, variant \in VariantUpdates : UpdateProduct(p, variant)

SpecAdmin == InitAdmin /\ [][NextAdmin]_vars

\* Deletion of products: cash-on-delivery checkouts of one-line carts,
\* orders that are fulfilled or cancelled, product updates that leave a
\* product without variants, and requests to delete a product.
NextDeletion ==
    \/ \E r \in Reqs, u \in Users, body \in CodBodies :
          /\ deleteAnswer.seq = 0 /\ removed = {}
          /\ body.sessionId = r
          /\ Receive(r, u, body)
    \/ \E r \in Reqs : GetCart(r)
    \/ \E r \in Reqs, i \in 1..NumVariants : ValidateStock(r, i)
    \/ \E r \in Reqs : CreateOrder(r, FirstTrackingId, 1)
    \/ \E r \in Reqs : CreateOrderItem(r)
    \/ \E r \in Reqs : SendOrderNotification(r)
    \/ \E r \in Reqs : ClearCart(r)
    \/ \E o \in 1..MaxReqs : Quiet /\ AdvanceOrder(o)
    \/ \E o \in 1..MaxReqs : Quiet /\ RequestOrderCancellation(o)
    \/ \E o \in 1..MaxReqs : Quiet /\ ProcessCancellationRequest(o)
    \/ \E p \in Variants : Quiet /\ DeleteProduct(p)
    \/ \E p \in Variants : Quiet /\ UpdateProductNoVariants(p)

SpecDeletion == InitTracking /\ [][NextDeletion]_vars

\* Amounts: checkouts of one-line carts whose bodies carry nothing, one
\* rupee or ten rupees as the amount, in paise.
AmountBodies ==
    [sessionId : Sessions, paymentMethod : {"cod"},
     razorpay : {NoRazorpayFields}, appliedDiscount : {Null},
     amount : {0, 100, SentAmount},
     customerInfo : {[email |-> AccountEmail]}]
    \cup
    [sessionId : Sessions, paymentMethod : {"razorpay"},
     razorpay : {[razorpayOrderId |-> 1, razorpayPaymentId |-> 1,
                  razorpaySignature |-> Hmac(ServerSecret, SignedBody(1, 1))]},
     appliedDiscount : {Null}, amount : {0, 100, SentAmount},
     customerInfo : {[email |-> AccountEmail]}]

NextAmount ==
    \/ \E r \in Reqs, u \in Users, body \in AmountBodies :
          body.sessionId = r /\ Receive(r, u, body)
    \/ \E r \in Reqs : GetCart(r)
    \/ \E r \in Reqs, i \in 1..NumVariants : ValidateStock(r, i)
    \/ \E r \in Reqs : CreateOrder(r, FirstTrackingId, 1)
    \/ \E r \in Reqs : CreateOrderItem(r)
    \/ \E r \in Reqs : CreatePayment(r)
    \/ \E r \in Reqs : SendOrderNotification(r)
    \/ \E r \in Reqs : ClearCart(r)

SpecAmount == InitTracking /\ [][NextAmount]_vars

\* The list of active discounts: discounted cash-on-delivery checkouts of
\* one-line carts, POST /api/discounts/apply and the list itself.
NextActive ==
    \/ \E r \in Reqs, u \in Users, body \in DiscountedBodies :
          /\ body.sessionId = r /\ body.paymentMethod = "cod"
          /\ Receive(r, u, body)
    \/ \E r \in Reqs : GetCart(r)
    \/ \E r \in Reqs, i \in 1..NumVariants : ValidateStock(r, i)
    \/ \E r \in Reqs : CreateOrder(r, FirstTrackingId, 1)
    \/ \E r \in Reqs : CreateOrderItem(r)
    \/ \E r \in Reqs : SendOrderNotification(r)
    \/ \E r \in Reqs : ApplyDiscount(r)
    \/ \E r \in Reqs : ClearCart(r)
    \/ \E body \in ApplyBodies : Quiet /\ PostDiscountsApply(body)
    \/ \E u \in Accounts : Quiet /\ GetActiveDiscounts(u)

SpecActive == InitTracking /\ [][NextActive]_vars

\* Account deletion: cash-on-delivery checkouts of one-line carts by a
\* user whose account exists, redemptions of the discount, and requests
\* to delete the account.
NextAccount ==
    \/ \E r \in Reqs, u \in Users \ deletedUsers, body \in CodBodies :
          body.sessionId = r /\ Receive(r, u, body)
    \/ \E r \in Reqs : GetCart(r)
    \/ \E r \in Reqs, i \in 1..NumVariants : ValidateStock(r, i)
    \/ \E r \in Reqs : CreateOrder(r, FirstTrackingId, 1)
    \/ \E r \in Reqs : CreateOrderItem(r)
    \/ \E r \in Reqs : SendOrderNotification(r)
    \/ \E r \in Reqs : ClearCart(r)
    \/ \E body \in ApplyBodies :
          Quiet /\ deletedUsers = {} /\ PostDiscountsApply(body)
    \/ \E u \in Users, body \in DeleteAccountBodies :
          Quiet /\ DeleteAccount(u, body)

SpecAccount == InitTracking /\ [][NextAccount]_vars

\* Password reset: requests for a reset link and changes of the
\* account's address.
NextForgot ==
    \/ \E body \in ForgotBodies, resetToken \in ResetTokens,
          emailThrows \in BOOLEAN :
          ForgotPassword(body, resetToken, emailThrows)
    \/ \E u \in Users, body \in ChangeEmailBodies : ChangeEmail(u, body)

SpecForgot == InitTracking /\ [][NextForgot]_vars

\* ------------------------------------------------------------- claims
Started(r) == req[r].pc # "idle"
Done(r) == req[r].pc = "done"
Succeeded(r) == Done(r) /\ req[r].response.status = 200
OnlyStarted(r) == \A q \in Reqs \ {r} : ~Started(q)

ItemsOfOrder(o) == {i \in 1..Len(orderItems) : orderItems[i].orderId = o}
PaymentsOfOrder(o) == {i \in 1..Len(payments) : payments[i].orderId = o}

\* Units of variant v on the first n order item rows.
RECURSIVE SoldUpTo(_, _)
SoldUpTo(v, n) ==
    IF n = 0 THEN 0
    ELSE SoldUpTo(v, n - 1)
         + (IF orderItems[n].variantId = v THEN orderItems[n].quantity ELSE 0)

Sold(v) == SoldUpTo(v, Len(orderItems))

Min(a, b) == IF a <= b THEN a ELSE b

\* The request's cart was one line asking for one unit of variant v.
UnitAttempt(r, v) ==
    /\ Len(req[r].cart) = 1
    /\ req[r].cart[1].variant.id = v
    /\ req[r].cart[1].quantity = 1

AllUnitAttemptsDone(v) ==
    /\ faults = 0
    /\ \A r \in Reqs : Done(r) /\ UnitAttempt(r, v)

\* C1: no oversell.  The units of a variant on order items never exceed,
\* with the units still in stock, the units put on sale; and when every
\* request was a one-unit checkout of the same variant, as many succeed
\* as there was stock, the others fail with "Insufficient stock" naming the
\* product, and the stock left is what the successes did not take (0 when
\* there were more attempts than stock).
C1_NoOversell ==
    \A v \in Variants :
        /\ Sold(v) + variants[v].stockQuantity <= supplied[v]
        /\ AllUnitAttemptsDone(v) =>
             LET wins == {r \in Reqs : Succeeded(r)}
             IN  /\ Cardinality(wins) = Min(supplied[v], MaxReqs)
                 /\ Len(orders) = Cardinality(wins)
                 /\ variants[v].stockQuantity =
                        supplied[v] - Cardinality(wins)
                 /\ \A r \in Reqs \ wins :
                        /\ req[r].response.error = "Insufficient stock for"
                        /\ req[r].response.product = ProductOf(v)

C1_Witness ==
    /\ AllUnitAttemptsDone(1)
    /\ supplied[1] = MaxReqs - 1
    /\ variants[1].stockQuantity = 0
    /\ \E r \in Reqs : req[r].response.error = "Insufficient stock for"

\* C2: checkout is one unit.  After a request has finished, with success or
\* with an error, the order it created has one order item per cart line
\* and, for razorpay, its payment row.
C2_CheckoutIsOneUnit ==
    \A r \in Reqs :
        (Done(r) /\ req[r].order # 0) =>
            /\ Cardinality(ItemsOfOrder(req[r].order)) = Len(req[r].cart)
            /\ req[r].paymentMethod = "razorpay" =>
                   PaymentsOfOrder(req[r].order) # {}

\* C3: atomicity of abort.  When the only checkout so far had two lines
\* and failed on the stock of its second line, the stock of the first
\* line's variant is what it was before the attempt.
C3_AbortReleasesFirstLine ==
    \A r \in Reqs :
        ( /\ OnlyStarted(r) /\ Done(r) /\ req[r].pending = {}
          /\ Len(req[r].cart) = 2
          /\ req[r].response.error = "Insufficient stock for"
          /\ req[r].response.product = req[r].cart[2].product.id )
        => variants[req[r].cart[1].variant.id].stockQuantity
               = supplied[req[r].cart[1].variant.id]

\* A razorpay request with all three fields whose signature is not the
\* HMAC-SHA256 of razorpayOrderId|razorpayPaymentId under the server secret.
Tampered(request) ==
    /\ request.paymentMethod = "razorpay"
    /\ request.razorpay.razorpayOrderId # 0
    /\ request.razorpay.razorpayPaymentId # 0
    /\ request.razorpay.razorpaySignature # MissingSignature
    /\ request.razorpay.razorpaySignature #
           Hmac(ServerSecret, SignedBody(request.razorpay.razorpayOrderId,
                                         request.razorpay.razorpayPaymentId))

\* C4: signature rejection.  A request with a tampered signature is answered
\* 400 "Invalid payment signature", has read no cart, started no stock
\* validation and created no order, order item or payment; and the step
\* that receives it changes no stock, cart, order, order item or payment.
C4_SignatureRejection ==
    /\ [](\A r \in Reqs :
            (Started(r) /\ Tampered(req[r])) =>
                /\ Done(r)
                /\ req[r].response.status = 400
                /\ req[r].response.message = "Invalid payment signature"
                /\ req[r].cart = <<>> /\ req[r].pending = {}
                /\ req[r].order = 0 /\ req[r].created = 0
                /\ req[r].payment = 0)
    /\ [][\A r \in Reqs :
            (~Started(r) /\ req'[r].pc # "idle" /\ Tampered(req'[r])) =>
                UNCHANGED <<variants, carts, orders, orderItems, payments>>]_vars

C4_Witness ==
    \E r \in Reqs :
        /\ Tampered(req[r])
        /\ req[r].response.message = "Invalid payment signature"
        /\ carts[req[r].sessionId] # <<>>
        /\ orders # <<>>

\* C5: a successful checkout has exactly one order of its own, with one
\* order item per cart line of the same product, variant and quantity; when
\* every checkout that validated stock has succeeded, each variant's stock
\* is down by exactly the quantities those checkouts bought; and the step
\* that answers success leaves the session's cart empty.
C5_SuccessfulCheckout ==
    /\ [](\A r \in Reqs :
            Succeeded(r) =>
                /\ req[r].order \in 1..Len(orders)
                /\ \A q \in Reqs \ {r} : req[q].order # req[r].order
                /\ Cardinality(ItemsOfOrder(req[r].order)) = Len(req[r].cart)
                /\ \A k \in 1..Len(req[r].cart) :
                     \E i \in ItemsOfOrder(req[r].order) :
                        /\ orderItems[i].variantId = req[r].cart[k].variant.id
                        /\ orderItems[i].productId = req[r].cart[k].product.id
                        /\ orderItems[i].quantity = req[r].cart[k].quantity)
    /\ []((\A r \in Reqs : req[r].cart = <<>> \/ Succeeded(r)) =>
            \A v \in Variants :
                variants[v].stockQuantity =
                    supplied[v] - Sold(v))
    /\ [][\A r \in Reqs :
            (~Succeeded(r) /\ req'[r].pc = "done"
                /\ req'[r].response.status = 200) =>
                carts'[req[r].sessionId] = <<>>]_vars

C5_Witness ==
    \E r \in Reqs :
        /\ OnlyStarted(r) /\ Succeeded(r)
        /\ Len(req[r].cart) = 1
        /\ req[r].cart[1].quantity = 2
        /\ supplied[req[r].cart[1].variant.id] = 2
        /\ variants[req[r].cart[1].variant.id].stockQuantity = 0
        /\ Len(orders) = 1 /\ Len(orderItems) = 1
        /\ carts[req[r].sessionId] = <<>>

\* C6: when the only checkout so far had a line asking for more than the
\* variant's stock, it failed with "Insufficient stock" naming such a line's
\* product, no order exists and every variant's stock is unchanged.
C6_InsufficientStockChangesNothing ==
    \A r \in Reqs :
        ( /\ OnlyStarted(r) /\ Done(r) /\ req[r].pending = {} /\ faults = 0
          /\ \E k \in 1..Len(req[r].cart) :
                req[r].cart[k].quantity > supplied[req[r].cart[k].variant.id] )
        => /\ req[r].response.error = "Insufficient stock for"
           /\ \E k \in 1..Len(req[r].cart) :
                /\ req[r].cart[k].quantity
                       > supplied[req[r].cart[k].variant.id]
                /\ req[r].response.product = req[r].cart[k].product.id
           /\ orders = <<>>
           /\ \A v \in Variants : variants[v].stockQuantity = supplied[v]

\* C7: an invalid signature and insufficient stock are both answered 400,
\* the latter naming the product; 500 is kept for unexpected failures.
C7_ClientErrorsAre400 ==
    \A r \in Reqs :
        Done(r) =>
            /\ req[r].response.message = "Invalid payment signature"
                   => req[r].response.status = 400
            /\ req[r].response.error = "Insufficient stock for"
                   => /\ req[r].response.status = 400
                      /\ req[r].response.product # 0
            /\ req[r].response.status = 500
                   => req[r].response.error = "storage failure"

\* C8: every order has status "confirmed"; a cod order has a null payment
\* reference and no payment row; the razorpay order of a finished checkout
\* has exactly one payment row.
C8_OrdersAndPayments ==
    \A o \in 1..Len(orders) :
        /\ orders[o].status = "confirmed"
        /\ orders[o].paymentMethod = "cod" =>
               /\ orders[o].paymentId = Null
               /\ PaymentsOfOrder(o) = {}
        /\ ( /\ orders[o].paymentMethod = "razorpay"
             /\ \E r \in Reqs : Done(r) /\ req[r].order = o )
           => Cardinality(PaymentsOfOrder(o)) = 1

\* C9: the price on an order item is the variant's discount price when one
\* is set and its regular price otherwise, the default 0 counting as unset.
C9_ItemPriceIsDiscountOrRegular ==
    \A i \in 1..Len(orderItems) :
        \A r \in Reqs :
            req[r].order = orderItems[i].orderId =>
                \A k \in 1..Len(req[r].cart) :
                    req[r].cart[k].variant.id = orderItems[i].variantId =>
                        LET variant == req[r].cart[k].variant
                        IN  orderItems[i].price =
                              IF variant.discountPrice \in {Null, Some(0)}
                              THEN variant.price
                              ELSE variant.discountPrice[1]

\* C10: price immutability.  No step, an admin update of a variant's price
\* or discount price included, changes the price of an existing order item.
C10_PriceImmutability ==
    [][\A i \in 1..Len(orderItems) :
          /\ i <= Len(orderItems')
          /\ orderItems'[i].price = orderItems[i].price]_vars

C10_Witness ==
    \E i \in 1..Len(orderItems) :
        /\ adminOps = 1
        /\ variants[orderItems[i].variantId].price # PriceOf(orderItems[i].variantId)
        /\ orderItems[i].price # ItemPrice(variants[orderItems[i].variantId])

\* C11: discount recording is non-blocking.  The step in which
\* storage.applyDiscount throws changes no order, order item or payment and
\* lets the handler go on to clear the cart; and a checkout whose discount
\* recording threw, when no call outside the discount block failed after it,
\* has answered with the success response, its order and the order's items
\* persisted.
C11_DiscountFailureIsNotFatal ==
    /\ [][\A r \in Reqs :
            (~req[r].discountErr /\ req'[r].discountErr) =>
                /\ req'[r].pc = "clearCart"
                /\ UNCHANGED <<orders, orderItems, payments>>]_vars
    /\ [](\A r \in Reqs :
            ( /\ req[r].discountErr /\ Done(r)
              /\ req[r].response.error # "storage failure" ) =>
                /\ req[r].response.status = 200
                /\ req[r].response.message =
                       IF req[r].paymentMethod = "cod"
                       THEN "Order placed successfully"
                       ELSE "Payment successful and order created"
                /\ req[r].order \in 1..Len(orders)
                /\ Cardinality(ItemsOfOrder(req[r].order)) = Len(req[r].cart))

C11_Witness ==
    \E r \in Reqs :
        /\ req[r].discountErr /\ Succeeded(r)
        /\ req[r].order \in 1..Len(orders)
        /\ ItemsOfOrder(req[r].order) # {}
        /\ discountUsage = <<>>
        /\ \A d \in Discounts : discounts[d].usedCount = 0

\* The order of the request is persisted with an item for every cart line
\* and, for razorpay, its payment row: steps 1 to 6 are over.
Persisted(r) ==
    /\ req[r].order \in 1..Len(orders)
    /\ req[r].cart # <<>>
    /\ req[r].created = Len(req[r].cart)
    /\ req[r].paymentMethod = "razorpay" => req[r].payment # 0

\* C12: once the order and its items are persisted, a failure of the
\* notification, of the discount recording or of the cart clearing never
\* makes the checkout answer with a failure.
C12_LateFailureIsNotFatal ==
    \A r \in Reqs :
        (Done(r) /\ Persisted(r)) => req[r].response.status = 200

\* C13: a checkout of a session whose cart has no lines is rejected: the
\* step that reads the empty cart ends the request with 400 "No items in
\* cart to create order" (or 500 when reading the cart threw) and changes
\* no stock, cart, order, order item, payment, discount or usage row; such
\* a request never validates stock; and a request so answered holds no
\* order, order item or payment.
C13_EmptyCartRejected ==
    /\ [][\A r \in Reqs :
            ( /\ req[r].pc = "getCart"
              /\ carts[req[r].sessionId] = <<>>
              /\ req'[r] # req[r] ) =>
                /\ req'[r].pc = "done"
                /\ \/ /\ req'[r].response.status = 400
                      /\ req'[r].response.message =
                             "No items in cart to create order"
                   \/ /\ req'[r].response.status = 500
                      /\ req'[r].response.error = "storage failure"
                /\ req'[r].pending = {} /\ req'[r].order = 0
                /\ UNCHANGED <<variants, carts, orders, orderItems, payments,
                               discounts, discountUsage>>]_vars
    /\ [](\A r \in Reqs :
            /\ req[r].pc \in {"validate", "createOrder", "createOrderItem"}
                   => req[r].cart # <<>>
            /\ req[r].response.message = "No items in cart to create order"
                   => /\ req[r].response.status = 400
                      /\ req[r].order = 0 /\ req[r].created = 0
                      /\ req[r].payment = 0 /\ req[r].pending = {})

C13_Witness ==
    \E r \in Reqs :
        /\ Done(r)
        /\ req[r].response.message = "No items in cart to create order"
        /\ carts[req[r].sessionId] = <<>>
        /\ \E q \in Reqs \ {r} :
              Succeeded(q) /\ req[q].sessionId = req[r].sessionId

\* C16: every discount usage row, whether recorded by a checkout or by
\* POST /api/discounts/apply, names an order that exists.
C16_UsageRefersToOrder ==
    \A i \in 1..Len(discountUsage) :
        discountUsage[i].orderId \in 1..Len(orders)

\* The orders a lookup's order number names, and whether its e-mail is,
\* up to case and surrounding blanks, the given address.
OrdersTracked(q, os) ==
    {o \in 1..Len(os) : os[o].trackingId = Trim(q.orderNumber)}

SameEmail(typed, address) ==
    ToLowerCase(Trim(typed)) = ToLowerCase(address)

\* C14: a tracking lookup whose e-mail is not the address the order's
\* owner is known by shows nothing of the order: unless a field is empty
\* (400), it is answered with the very response given when no order has
\* the tracking number, 404 with the fixed message and no order.
C14_TrackingAuthorization ==
    [][tracked' # tracked =>
         LET named == OrdersTracked(tracked', orders')
             wrongEmail ==
                 \A o \in named :
                     ~SameEmail(tracked'.email, users'[orders'[o].userId].email)
         IN  /\ wrongEmail =>
                   /\ tracked'.response.order = 0
                   /\ tracked'.response.status \in {400, 404}
                   /\ tracked'.response.status = 404 =>
                          tracked'.response = TrackingNotFound
             /\ tracked'.response.status = 400 =>
                   Trim(tracked'.orderNumber) = "" \/ Trim(tracked'.email) = ""
             /\ (named = {} /\ tracked'.response.status # 400) =>
                   tracked'.response = TrackingNotFound]_vars

C14_Witness ==
    /\ tracked.response = TrackingNotFound
    /\ \E o \in OrdersTracked(tracked, orders) : orders[o].userId \in Users
    /\ \A o \in OrdersTracked(tracked, orders) :
          ~SameEmail(tracked.email, users[orders[o].userId].email)
    /\ Trim(tracked.email) # ""

\* C15: the e-mail a lookup must match is the one captured on the order at
\* checkout: a lookup naming an order's tracking number gets an order
\* exactly when its e-mail is that order's captured customer e-mail, and
\* the order it gets is one captured with that e-mail, whatever the
\* account's address has become.
C15_CapturedEmailUnlocks ==
    [][tracked' # tracked =>
         LET named == OrdersTracked(tracked', orders')
             unlocked == {o \in named :
                            SameEmail(tracked'.email,
                                      orders'[o].customerInfo.email)}
         IN  /\ unlocked # {} => tracked'.response.status = 200
             /\ tracked'.response.status = 200 =>
                   tracked'.response.order \in unlocked]_vars

C18_OrderedVariantsStay ==
    \A i \in 1..Len(orderItems) : orderItems[i].variantId \notin removed

\* C19: every stored review names an order that belongs to its author
\* and is delivered, and no two reviews are of the same product from the
\* same order by the same user, whatever rating requests have run and
\* however they interleaved.
C19_OneReviewPerOrderedProduct ==
    /\ \A i \in 1..Len(reviews) :
          /\ reviews[i].orderId \in 1..Len(orders)
          /\ orders[reviews[i].orderId].userId = reviews[i].userId
          /\ orders[reviews[i].orderId].status = "delivered"
    /\ \A i, j \in 1..Len(reviews) :
          ( /\ reviews[i].userId = reviews[j].userId
            /\ reviews[i].productId = reviews[j].productId
            /\ reviews[i].orderId = reviews[j].orderId ) => i = j

\* C20: an answered order history lists exactly the orders the user owned
\* when it was read, each once and none of another user, newest first;
\* each order comes with items and a payment of its own only, and, when
\* its checkout had persisted them before the read, with all its items and
\* with its payment, null when it has none.
C20_HistoryIsOwnOrdersNewestFirst ==
    (history.pc = "done") =>
        LET list == history.response.orders
            ids == {list[i].id : i \in 1..Len(list)}
        IN  /\ history.response.status = 200
            /\ ids = {o \in 1..history.seen :
                         orders[o].userId = history.userId}
            /\ Cardinality(ids) = Len(list)
            /\ \A i, j \in 1..Len(list) :
                  i < j => orders[list[i].id].createdAt
                              >= orders[list[j].id].createdAt
            /\ \A i \in 1..Len(list) :
                  /\ list[i].items \subseteq ItemsOfOrder(list[i].id)
                  /\ list[i].payment # Null =>
                        list[i].payment[1] \in PaymentsOfOrder(list[i].id)
                  /\ list[i].id \in history.complete =>
                        /\ list[i].items = ItemsOfOrder(list[i].id)
                        /\ list[i].payment = Null
                              <=> PaymentsOfOrder(list[i].id) = {}

C20_Witness ==
    /\ history.pc = "done"
    /\ Len(history.response.orders) = 2
    /\ history.response.orders[1].id = 2
    /\ history.response.orders[1].payment # Null
    /\ history.response.orders[2].payment = Null
    /\ \A i \in 1..2 : history.response.orders[i].items # {}
    /\ \A r \in Reqs : Succeeded(r)

\* C21: a request to delete a product that has no variant rows succeeds.
C21_BareProductDeleted ==
    (deleteAnswer.seq > 0 /\ ~deleteAnswer.hadRows)
        => deleteAnswer.response.status = 200

\* C22: a product whose deletion was refused because of pending orders is
\* deleted by a later request made when every order of its variants is
\* delivered or cancelled.
C22_DeletedOncePendingOrdersEnd ==
    (/\ deleteAnswer.repeated
     /\ deleteAnswer.hadRows
     /\ deleteAnswer.open = {})
        => deleteAnswer.response.status = 200

\* C23: a verified electronic payment pays for at most one order: no two
\* orders and no two payments carry the same razorpayPaymentId.
C23_PaymentPaysOneOrder ==
    /\ \A i, j \in 1..Len(orders) :
          (i # j /\ orders[i].paymentId # Null)
              => orders[i].paymentId # orders[j].paymentId
    /\ \A i, j \in 1..Len(payments) :
          i # j => payments[i].razorpayPaymentId # payments[j].razorpayPaymentId

\* C24: one cart yields at most one order: the carts are never refilled,
\* so no two orders come from the same session, however the requests of
\* the session interleave.
C24_OneOrderPerCart ==
    \A i, j \in 1..Len(orders) :
        i # j => orders[i].sessionId # orders[j].sessionId

\* The sum of price x quantity over the items of an order.
ItemsTotal(o) ==
    LET RECURSIVE Sum(_)
        Sum(i) == IF i = 0 THEN 0
                  ELSE Sum(i - 1) +
                       (IF orderItems[i].orderId = o
                        THEN orderItems[i].price * orderItems[i].quantity
                        ELSE 0)
    IN  Sum(Len(orderItems))

\* C25: the total of an order created without a discount is the sum of
\* price x quantity over its items, and the amount of its payment, if it
\* has one, is that total.
C25_TotalIsSumOfItems ==
    \A r \in Reqs :
        (Persisted(r) /\ req[r].appliedDiscount = Null) =>
            /\ orders[req[r].order].total = ItemsTotal(req[r].order)
            /\ req[r].paymentMethod = "razorpay" =>
                  payments[req[r].payment].amount = orders[req[r].order].total

\* The rows of discount_usage of a discount and a user.
UsagesOf(d, u) ==
    {i \in 1..Len(discountUsage) :
        discountUsage[i].discountId = d /\ discountUsage[i].userId = u}

\* C26: the used-count of a discount never exceeds its usage limit, and a
\* per-user discount has at most one usage row per user, whatever
\* checkouts and POST /api/discounts/apply calls have run.
C26_DiscountLimitsHold ==
    \A d \in Discounts :
        /\ discounts[d].usedCount <= discounts[d].usageLimit
        /\ discounts[d].perUser =>
              \A u \in Users : Cardinality(UsagesOf(d, u)) <= 1

\* C27: the list of active discounts sent to an authenticated user holds
\* no per-user discount the user has redeemed and no discount whose
\* used-count has reached its usage limit.
C27_ActiveListIsFiltered ==
    activeAnswer.seq > 0 =>
        activeAnswer.discounts \subseteq activeAnswer.available

\* C28: every stored review is of a product that is an item of the order
\* the review names.
C28_ReviewedProductWasOrdered ==
    \A i \in 1..Len(reviews) :
        \E j \in 1..Len(orderItems) :
            /\ orderItems[j].orderId = reviews[i].orderId
            /\ orderItems[j].productId = reviews[i].productId

\* C29: a step that deletes a users row, or rows of the user's orders,
\* items, payments, reviews or discount usage, is the answer to a request
\* that carried the code sent for the deletion of the account.
C29_DeletionNeedsVerifiedOtp ==
    [][(\/ deletedUsers' # deletedUsers
        \/ Len(orders') < Len(orders)
        \/ Len(orderItems') < Len(orderItems)
        \/ Len(payments') < Len(payments)
        \/ Len(reviews') < Len(reviews)
        \/ Len(discountUsage') < Len(discountUsage))
          => accountAnswer'.otp = Some(IssuedOtp)]_vars

\* C30: every request for a reset link with an address and a well-formed
\* number gets the same status and body, whether a user is registered
\* with them or not and whether the reset e-mail could be sent or not.
C30_ResetAnswerTellsNothing ==
    (/\ forgot.seq > 0
     /\ forgot.email # ""
     /\ forgot.number # Null
     /\ forgot.number[1].typeof = "string"
     /\ Len(forgot.number[1].value) >= 10)
        => forgot.response = GenericAnswer

====
